---- MODULE Spec2Model ----
(***************************************************************************)
(* Model of the wine crate (src/src/lib.rs): the DebugRules builder, the   *)
(* construction of a Prefix, the assembly of the launch command by         *)
(* Prefix::command and the terminate-all command of Prefix::kill_all.      *)
(*                                                                         *)
(* Text (OsStr, OsString, Path) is a sequence of one-character strings, so *)
(* that pushing, joining and counting separators are computed and not      *)
(* assumed.  Option<T> is a sequence of length at most one: <<>> is None   *)
(* and <<x>> is Some(x).                                                   *)
(***************************************************************************)
EXTENDS Integers, Sequences, FiniteSets, TLC

(***************************************************************************)
(* Bounds of the model.                                                    *)
(***************************************************************************)
\* longest DebugRules list the builder is driven to
MaxRules == 2
\* longest list of library directories given to Prefix::at
MaxDirs == 2
\* longest list of rules around the rule under test in the encoding runs
MaxCtx == 1

(***************************************************************************)
(* Text literals of the source.                                            *)
(***************************************************************************)
S_trace == <<"t", "r", "a", "c", "e">>
S_warn == <<"w", "a", "r", "n">>
S_err == <<"e", "r", "r">>
S_fixme == <<"f", "i", "x", "m", "e">>
S_all == <<"a", "l", "l">>
S_heap == <<"h", "e", "a", "p">>
S_loaddll == <<"l", "o", "a", "d", "d", "l", "l">>
S_module == <<"m", "o", "d", "u", "l", "e">>
S_pid == <<"p", "i", "d">>
S_relay == <<"r", "e", "l", "a", "y">>
S_seh == <<"s", "e", "h">>
S_server == <<"s", "e", "r", "v", "e", "r">>
S_snoop == <<"s", "n", "o", "o", "p">>
S_synchronous == <<"s", "y", "n", "c", "h", "r", "o", "n", "o", "u", "s">>
S_timestamp == <<"t", "i", "m", "e", "s", "t", "a", "m", "p">>
S_fps == <<"f", "p", "s">>
S_debugstr == <<"d", "e", "b", "u", "g", "s", "t", "r">>
S_threadname == <<"t", "h", "r", "e", "a", "d", "n", "a", "m", "e">>
S_start == <<"s", "t", "a", "r", "t">>
S_dash_k == <<"-", "k">>
S_one == <<"1">>
S_bin_wine == <<"b", "i", "n", "/", "w", "i", "n", "e">>
S_bin_wineserver == <<"b", "i", "n", "/", "w", "i", "n", "e", "s", "e", "r", "v", "e", "r">>
S_bin_regedit == <<"b", "i", "n", "/", "r", "e", "g", "e", "d", "i", "t">>
S_colon == <<":">>
S_comma == <<",">>
S_plus == <<"+">>
S_minus == <<"-">>

(***************************************************************************)
(* Inputs the operations are driven with.                                  *)
(***************************************************************************)
S_foo_exe == <<"f", "o", "o", ".", "e", "x", "e">>
S_a_exe == <<"a", ".", "e", "x", "e">>

\* enum DebugClass
DebugClass == {"Trace", "Warn", "Error", "Fixme"}

\* the unit variants of enum DebugChannel
WellKnownTags ==
    {"All", "Heap", "LoadDll", "Module", "Pid", "Relay", "Seh", "Server",
     "Snoop", "Synchronous", "Timestamp", "Fps", "DebugString", "ThreadName"}

Chan(tag) == [tag |-> tag, text |-> <<>>]
Other(text) == [tag |-> "Other", text |-> text]

\* payloads of DebugChannel::Other: a plain name, a name holding the field
\* separator, a name holding the part separator
OtherTexts == {<<"x">>, <<"a", ",", "b">>, <<"c", ":", "d">>}

\* enum DebugChannel
DebugChannel == {Chan(t) : t \in WellKnownTags} \cup {Other(x) : x \in OtherTexts}

\* Option<&OsStr> of DebugRule::process
Processes == {<<>>, <<S_foo_exe>>, << <<>> >>}

\* Option<DebugClass> of DebugRule::class
Classes == {<<>>} \cup {<<c>> : c \in DebugClass}

\* struct DebugRule
DebugRule == [process : Processes, class : Classes, channel : DebugChannel,
              is_enabled : BOOLEAN]

\* struct PrefixConfig
PrefixConfig == [esync : BOOLEAN, msync : BOOLEAN]

\* all sequences over S of length at most n
RECURSIVE SeqsUpTo(_, _)
SeqsUpTo(S, n) ==
    IF n = 0 THEN {<<>>}
    ELSE LET shorter == SeqsUpTo(S, n - 1)
         IN shorter \cup {Append(s, x) : s \in {t \in shorter : Len(t) = n - 1}, x \in S}

\* channels the builder is driven with in the system runs
SysChannels == {Chan("Heap"), Other(<<"a", ",", "b">>)}

\* rules the builder is driven with through add in the system runs
SysRules ==
    {[process |-> <<S_foo_exe>>, class |-> <<"Error">>, channel |-> Chan("Heap"),
      is_enabled |-> FALSE],
     [process |-> <<>>, class |-> <<"Warn">>, channel |-> Chan("Relay"),
      is_enabled |-> TRUE]}

\* programs to launch
Programs == {S_a_exe}

\* library directories
LibDirs == {<<"/", "a">>, <<"/", "b">>}

\* the process's working directory and the regular files of the file system
Cwd == <<"/", "h">>
RegularFiles ==
    {<<"/", "p", "/">> \o S_bin_wine, <<"/", "p", "/">> \o S_bin_wineserver,
     <<"/", "p", "/">> \o S_bin_regedit,
     <<"/", "w", "/">> \o S_bin_wine,
     <<"/", "q", "/">> \o S_bin_wineserver, <<"/", "q", "/">> \o S_bin_regedit,
     <<"/", "h", "/", "r", "/">> \o S_bin_wine,
     <<"/", "h", "/", "r", "/">> \o S_bin_wineserver,
     <<"/", "h", "/", "r", "/">> \o S_bin_regedit}

\* prefix roots: a full installation, one with bin/wine only, one without
\* bin/wine, and a full installation named relative to the working directory
Roots == {<<"/", "p">>, <<"/", "w">>, <<"/", "q">>, <<"r">>}

VARIABLES
    pc,            \* "start": no Prefix yet; "ready": Prefix::at returned; "panicked"
    rules,         \* DebugRules::rules
    calls,         \* the builder calls made on the DebugRules, oldest first
    at_args,       \* Option of the arguments Prefix::at was called with
    prefix,        \* Option<Prefix>: the value Prefix::at returned
    command_args,  \* Option of the arguments of the last command / kill_all call
    last_command,  \* Option of the command descriptor that call built
    output         \* Option of the io::Result kill_all returned: "Ok" or "Err"

vars == <<pc, rules, calls, at_args, prefix, command_args, last_command, output>>

(***************************************************************************)
(* DebugClass::as_os_str and DebugChannel::as_os_str                        *)
(***************************************************************************)
\* faulty variant: Error spelled "error"
ClassStrWrong(class) ==
    CASE class = "Trace" -> S_trace
      [] class = "Warn" -> S_warn
      [] class = "Error" -> <<"e", "r", "r", "o", "r">>
      [] class = "Fixme" -> S_fixme

ClassStr(class) ==
    CASE class = "Trace" -> S_trace
      [] class = "Warn" -> S_warn
      [] class = "Error" -> S_err
      [] class = "Fixme" -> S_fixme

ChannelStr(channel) ==
    CASE channel.tag = "All" -> S_all
      [] channel.tag = "Heap" -> S_heap
      [] channel.tag = "LoadDll" -> S_loaddll
      [] channel.tag = "Module" -> S_module
      [] channel.tag = "Pid" -> S_pid
      [] channel.tag = "Relay" -> S_relay
      [] channel.tag = "Seh" -> S_seh
      [] channel.tag = "Server" -> S_server
      [] channel.tag = "Snoop" -> S_snoop
      [] channel.tag = "Synchronous" -> S_synchronous
      [] channel.tag = "Timestamp" -> S_timestamp
      [] channel.tag = "Fps" -> S_fps
      [] channel.tag = "DebugString" -> S_debugstr
      [] channel.tag = "ThreadName" -> S_threadname
      [] channel.tag = "Other" -> channel.text

(***************************************************************************)
(* DebugRules: new, add, enable, disable                                   *)
(***************************************************************************)
\* faulty variant: enable pushes a disabling rule
EnableRuleWrong(channel) ==
    [process |-> <<>>, class |-> <<>>, channel |-> channel, is_enabled |-> FALSE]

\* the rule DebugRules::enable pushes
EnableRule(channel) ==
    [process |-> <<>>, class |-> <<>>, channel |-> channel, is_enabled |-> TRUE]

\* the rule DebugRules::disable pushes
DisableRule(channel) ==
    [process |-> <<>>, class |-> <<>>, channel |-> channel, is_enabled |-> FALSE]

\* Vec::push
Push(vec, x) == Append(vec, x)

add(rule) ==
    /\ pc # "panicked"
    /\ Len(rules) < MaxRules
    /\ rules' = Push(rules, rule)
    /\ calls' = Append(calls, [op |-> "add", rule |-> <<rule>>, channel |-> <<>>])
    /\ UNCHANGED <<pc, at_args, prefix, command_args, last_command, output>>

enable(channel) ==
    /\ pc # "panicked"
    /\ Len(rules) < MaxRules
    /\ rules' = Push(rules, EnableRule(channel))
    /\ calls' = Append(calls, [op |-> "enable", rule |-> <<>>, channel |-> <<channel>>])
    /\ UNCHANGED <<pc, at_args, prefix, command_args, last_command, output>>

disable(channel) ==
    /\ pc # "panicked"
    /\ Len(rules) < MaxRules
    /\ rules' = Push(rules, DisableRule(channel))
    /\ calls' = Append(calls, [op |-> "disable", rule |-> <<>>, channel |-> <<channel>>])
    /\ UNCHANGED <<pc, at_args, prefix, command_args, last_command, output>>

(***************************************************************************)
(* Paths                                                                   *)
(***************************************************************************)
\* Path::is_absolute on Unix
IsAbsolute(path) == Len(path) > 0 /\ path[1] = "/"

\* Path::join: an absolute right side replaces the left one, otherwise a
\* separator is added unless the left side is empty or already ends in one
PathJoin(path, rel) ==
    IF IsAbsolute(rel) THEN rel
    ELSE IF Len(path) > 0 /\ path[Len(path)] # "/" THEN path \o <<"/">> \o rel
    ELSE path \o rel

\* Path::is_file: relative paths are resolved against the working directory
IsFile(path) == PathJoin(Cwd, path) \in RegularFiles

(***************************************************************************)
(* std::process::Command as a descriptor: program, working directory,      *)
(* environment overlay (a function from the names set to their values) and *)
(* argument list.                                                          *)
(***************************************************************************)
\* Command::new
CommandNew(program) ==
    [program |-> program, current_dir |-> <<>>, env |-> <<>>, args |-> <<>>]

\* Command::current_dir
CurrentDir(cmd, dir) == [cmd EXCEPT !.current_dir = <<dir>>]

\* Command::env: sets the variable, replacing an earlier value
Env(cmd, key, val) ==
    [cmd EXCEPT !.env = [k \in (DOMAIN cmd.env) \cup {key} |->
                            IF k = key THEN val ELSE cmd.env[k]]]

\* Command::arg
Arg(cmd, a) == [cmd EXCEPT !.args = Append(cmd.args, a)]

(***************************************************************************)
(* Prefix::at                                                              *)
(***************************************************************************)
\* the three executable paths derived from the root
PrefixPaths(path) ==
    [wine |-> PathJoin(path, S_bin_wine),
     wineserver |-> PathJoin(path, S_bin_wineserver),
     regedit |-> PathJoin(path, S_bin_regedit)]

\* faulty variant: the assert tests bin/wineserver
AtAssertWrong(paths) == IsFile(paths.wineserver)

\* the condition of the assert! in Prefix::at
AtAssert(paths) == IsFile(paths.wine)

\* faulty variant: the separator is pushed before the first directory too
JoinStepWrong(acc, i, dir) == (acc \o S_colon) \o dir

\* the closure folded over the enumerated library directories (i from 0)
JoinStep(acc, i, dir) == (IF i > 0 THEN acc \o S_colon ELSE acc) \o dir

\* .into_iter().enumerate().fold(OsString::new(), ...) from position n on
RECURSIVE JoinFold(_, _, _)
JoinFold(dirs, n, acc) ==
    IF n > Len(dirs) THEN acc
    ELSE JoinFold(dirs, n + 1, JoinStep(acc, n - 1, dirs[n]))

\* the Prefix value Prefix::at builds
PrefixValue(path, dirs, config) ==
    LET paths == PrefixPaths(path)
    IN [path |-> path,
        dynamic_library_paths |-> JoinFold(dirs, 1, <<>>),
        wine |-> paths.wine,
        wineserver |-> paths.wineserver,
        regedit |-> paths.regedit,
        config |-> config]

at(path, dirs, config) ==
    /\ pc = "start"
    /\ at_args' = <<[path |-> path, dynamic_library_paths |-> dirs, config |-> config]>>
    /\ IF AtAssert(PrefixPaths(path))
       THEN /\ prefix' = <<PrefixValue(path, dirs, config)>>
            /\ pc' = "ready"
       ELSE /\ prefix' = <<>>
            /\ pc' = "panicked"
    /\ UNCHANGED <<rules, calls, command_args, last_command, output>>

(***************************************************************************)
(* Prefix::command                                                         *)
(***************************************************************************)
\* current_dir and the two variables that are always set
BaseEnv(cmd, self) ==
    Env(Env(CurrentDir(cmd, self.path), "WINEPREFIX", self.path),
        "DYLD_FALLBACK_LIBRARY_PATH", self.dynamic_library_paths)

\* faulty variant: a disabled flag is emitted as "0"
SyncEnvWrong(cmd, config) ==
    Env(Env(cmd, "ESYNC", IF config.esync THEN S_one ELSE <<"0">>),
        "MSYNC", IF config.msync THEN S_one ELSE <<"0">>)

\* ESYNC and MSYNC
SyncEnv(cmd, config) ==
    LET c1 == IF config.esync THEN Env(cmd, "ESYNC", S_one) ELSE cmd
    IN IF config.msync THEN Env(c1, "MSYNC", S_one) ELSE c1

\* faulty variant: the comma is pushed after every rule
RuleStepWrong(acc, i, debug_rule) ==
    LET a1 == IF debug_rule.process # <<>>
              THEN (acc \o debug_rule.process[1]) \o S_colon ELSE acc
        a2 == IF debug_rule.class # <<>>
              THEN (a1 \o ClassStr(debug_rule.class[1])) \o S_colon ELSE a1
        a3 == a2 \o (IF debug_rule.is_enabled THEN S_plus ELSE S_minus)
    IN (a3 \o ChannelStr(debug_rule.channel)) \o S_comma

\* the body of the loop over the enumerated rules (i from 0)
RuleStep(acc, i, debug_rule) ==
    LET a0 == IF i > 0 THEN acc \o S_comma ELSE acc
        a1 == IF debug_rule.process # <<>>
              THEN (a0 \o debug_rule.process[1]) \o S_colon ELSE a0
        a2 == IF debug_rule.class # <<>>
              THEN (a1 \o ClassStr(debug_rule.class[1])) \o S_colon ELSE a1
        a3 == a2 \o (IF debug_rule.is_enabled THEN S_plus ELSE S_minus)
    IN a3 \o ChannelStr(debug_rule.channel)

\* the loop building debug_env_value, from position n on
RECURSIVE DebugEnvValue(_, _, _)
DebugEnvValue(debug_rules, n, acc) ==
    IF n > Len(debug_rules) THEN acc
    ELSE DebugEnvValue(debug_rules, n + 1, RuleStep(acc, n - 1, debug_rules[n]))

\* faulty variant: WINEDEBUG is set for the empty list too
DebugEnvWrong(cmd, debug_rules) ==
    Env(cmd, "WINEDEBUG", DebugEnvValue(debug_rules, 1, <<>>))

\* WINEDEBUG
DebugEnv(cmd, debug_rules) ==
    IF debug_rules # <<>>
    THEN Env(cmd, "WINEDEBUG", DebugEnvValue(debug_rules, 1, <<>>))
    ELSE cmd

\* faulty variant: "start" is pushed after the program
CommandArgsWrong(cmd, use_start_exe, program) ==
    LET c1 == Arg(cmd, program)
    IN IF use_start_exe THEN Arg(c1, S_start) ELSE c1

\* the argument list
CommandArgs(cmd, use_start_exe, program) ==
    LET c1 == IF use_start_exe THEN Arg(cmd, S_start) ELSE cmd
    IN Arg(c1, program)

\* the Command that Prefix::command returns
CommandValue(self, use_start_exe, program, debug_rules) ==
    CommandArgs(
        DebugEnv(SyncEnv(BaseEnv(CommandNew(self.wine), self), self.config),
                 debug_rules),
        use_start_exe, program)

command(use_start_exe, program) ==
    /\ pc = "ready"
    /\ command_args' = <<[op |-> "command", use_start_exe |-> use_start_exe,
                          program |-> program, debug_rules |-> rules]>>
    /\ last_command' = <<CommandValue(prefix[1], use_start_exe, program, rules)>>
    /\ output' = <<>>
    /\ UNCHANGED <<pc, rules, calls, at_args, prefix>>

(***************************************************************************)
(* Prefix::kill_all                                                        *)
(***************************************************************************)
\* faulty variant: kill_all passes the synchronization flags on
KillAllCommandWrong(self) ==
    Arg(SyncEnv(Env(CurrentDir(CommandNew(self.wineserver), self.path),
                    "WINEPREFIX", self.path), self.config), S_dash_k)

\* the Command that Prefix::kill_all runs
KillAllCommand(self) ==
    Arg(Env(CurrentDir(CommandNew(self.wineserver), self.path),
            "WINEPREFIX", self.path), S_dash_k)

\* Command::output: Err when the executable cannot be started, which is
\* certain when it is not a file; the exit status is not inspected
Outputs(cmd) == IF IsFile(cmd.program) THEN {"Ok", "Err"} ELSE {"Err"}

kill_all ==
    /\ pc = "ready"
    /\ command_args' = <<[op |-> "kill_all"]>>
    /\ last_command' = <<KillAllCommand(prefix[1])>>
    /\ \E res \in Outputs(KillAllCommand(prefix[1])) : output' = <<res>>
    /\ UNCHANGED <<pc, rules, calls, at_args, prefix>>

(***************************************************************************)
(* The system: a DebugRules built by add, enable and disable, one Prefix   *)
(* constructed by Prefix::at, then any number of command and kill_all.     *)
(***************************************************************************)
Init ==
    /\ pc = "start"
    /\ rules = <<>>
    /\ calls = <<>>
    /\ at_args = <<>>
    /\ prefix = <<>>
    /\ command_args = <<>>
    /\ last_command = <<>>
    /\ output = <<>>

Next ==
    \/ \E rule \in SysRules : add(rule)
    \/ \E channel \in SysChannels : enable(channel)
    \/ \E channel \in SysChannels : disable(channel)
    \/ \E path \in Roots, dirs \in SeqsUpTo(LibDirs, MaxDirs), config \in PrefixConfig :
          at(path, dirs, config)
    \/ \E use_start_exe \in BOOLEAN, program \in Programs :
          command(use_start_exe, program)
    \/ kill_all

Spec == Init /\ [][Next]_vars

(***************************************************************************)
(* The encoding runs: Prefix::command applied to rule lists drawn over the *)
(* whole DebugRule type, each rule alone and between other rules.          *)
(***************************************************************************)
CtxRules ==
    {[process |-> <<>>, class |-> <<>>, channel |-> Chan("Relay"), is_enabled |-> TRUE],
     [process |-> <<S_foo_exe>>, class |-> <<"Fixme">>,
      channel |-> Other(<<"a", ",", "b">>), is_enabled |-> FALSE]}

EncodeInputs ==
    {(pre \o <<rule>>) \o post :
        pre \in SeqsUpTo(CtxRules, MaxCtx), rule \in DebugRule,
        post \in SeqsUpTo(CtxRules, MaxCtx)}

InitEncode ==
    /\ pc = "ready"
    /\ rules \in EncodeInputs
    /\ calls = [i \in 1..Len(rules) |->
                   [op |-> "add", rule |-> <<rules[i]>>, channel |-> <<>>]]
    /\ \E config \in PrefixConfig :
          /\ at_args = <<[path |-> <<"/", "p">>, dynamic_library_paths |-> <<>>,
                          config |-> config]>>
          /\ prefix = <<PrefixValue(<<"/", "p">>, <<>>, config)>>
    /\ command_args = <<>>
    /\ last_command = <<>>
    /\ output = <<>>

NextEncode ==
    \E use_start_exe \in BOOLEAN, program \in Programs :
        command(use_start_exe, program)

SpecEncode == InitEncode /\ [][NextEncode]_vars

(***************************************************************************)
(* Vocabulary of the properties.  The expected texts are written out here  *)
(* from the format the properties state, not taken from the operators      *)
(* above.                                                                  *)
(***************************************************************************)
\* the last call was Prefix::command
Launch == command_args # <<>> /\ command_args[1].op = "command"

\* the last call was Prefix::kill_all
Kill == command_args # <<>> /\ command_args[1].op = "kill_all"

\* the environment overlay of the last descriptor, and whether it sets a name
LastEnv == last_command[1].env
IsSet(name) == name \in DOMAIN LastEnv

\* the rule list handed to the last Prefix::command
LaunchRules == command_args[1].debug_rules

ClassName ==
    [Trace |-> <<"t", "r", "a", "c", "e">>, Warn |-> <<"w", "a", "r", "n">>,
     Error |-> <<"e", "r", "r">>, Fixme |-> <<"f", "i", "x", "m", "e">>]

ChannelName ==
    [All |-> <<"a", "l", "l">>, Heap |-> <<"h", "e", "a", "p">>,
     LoadDll |-> <<"l", "o", "a", "d", "d", "l", "l">>,
     Module |-> <<"m", "o", "d", "u", "l", "e">>, Pid |-> <<"p", "i", "d">>,
     Relay |-> <<"r", "e", "l", "a", "y">>, Seh |-> <<"s", "e", "h">>,
     Server |-> <<"s", "e", "r", "v", "e", "r">>,
     Snoop |-> <<"s", "n", "o", "o", "p">>,
     Synchronous |-> <<"s", "y", "n", "c", "h", "r", "o", "n", "o", "u", "s">>,
     Timestamp |-> <<"t", "i", "m", "e", "s", "t", "a", "m", "p">>,
     Fps |-> <<"f", "p", "s">>,
     DebugString |-> <<"d", "e", "b", "u", "g", "s", "t", "r">>,
     ThreadName |-> <<"t", "h", "r", "e", "a", "d", "n", "a", "m", "e">>]

\* [process-name ":"] [class-name ":"] ("+"|"-") channel-name
RuleText(r) ==
    LET proc == IF r.process = <<>> THEN <<>> ELSE Append(r.process[1], ":")
        cls == IF r.class = <<>> THEN <<>> ELSE Append(ClassName[r.class[1]], ":")
        sign == IF r.is_enabled THEN <<"+">> ELSE <<"-">>
        chan == IF r.channel.tag = "Other" THEN r.channel.text
                ELSE ChannelName[r.channel.tag]
    IN ((proc \o cls) \o sign) \o chan

\* the texts of a list joined by a separator character
RECURSIVE Joined(_, _)
Joined(texts, sep) ==
    IF texts = <<>> THEN <<>>
    ELSE IF Len(texts) = 1 THEN texts[1]
    ELSE (Append(texts[1], sep)) \o Joined(Tail(texts), sep)

\* the fields of a text delimited by a separator character
RECURSIVE FieldsFrom(_, _, _, _, _)
FieldsFrom(text, sep, n, cur, done) ==
    IF n > Len(text) THEN Append(done, cur)
    ELSE IF text[n] = sep THEN FieldsFrom(text, sep, n + 1, <<>>, Append(done, cur))
    ELSE FieldsFrom(text, sep, n + 1, Append(cur, text[n]), done)

Fields(text, sep) == FieldsFrom(text, sep, 1, <<>>, <<>>)

Count(text, ch) == Cardinality({n \in 1..Len(text) : text[n] = ch})

\* where the text of the i-th rule starts in the joined value, less one
RECURSIVE Offset(_, _)
Offset(rs, i) ==
    IF i = 1 THEN 0 ELSE Offset(rs, i - 1) + Len(RuleText(rs[i - 1])) + 1

HeapOn == [process |-> <<>>, class |-> <<>>, channel |-> Chan("Heap"), is_enabled |-> TRUE]
FooErrHeapOff ==
    [process |-> << <<"f", "o", "o", ".", "e", "x", "e">> >>, class |-> <<"Error">>,
     channel |-> Chan("Heap"), is_enabled |-> FALSE]
FooErrHeapOffText ==
    <<"f", "o", "o", ".", "e", "x", "e", ":", "e", "r", "r", ":", "-", "h", "e", "a", "p">>

\* C1: in the WINEDEBUG value of every command, the text standing at the
\* place of each rule is [process ":"] [class ":"] sign channel for that
\* rule, with the class and channel names of the tables and an Other channel
\* verbatim; the rule (None, None, Heap, enabled) alone gives "+heap" and
\* (Some("foo.exe"), Some(Error), Heap, disabled) alone "foo.exe:err:-heap".
C1_RuleEncoding ==
    Launch =>
        /\ \A i \in 1..Len(LaunchRules) :
              SubSeq(LastEnv["WINEDEBUG"], Offset(LaunchRules, i) + 1,
                     Offset(LaunchRules, i) + Len(RuleText(LaunchRules[i])))
                 = RuleText(LaunchRules[i])
        /\ LaunchRules = <<HeapOn>> => LastEnv["WINEDEBUG"] = <<"+", "h", "e", "a", "p">>
        /\ LaunchRules = <<FooErrHeapOff>> => LastEnv["WINEDEBUG"] = FooErrHeapOffText

C1_Witness ==
    /\ Launch
    /\ LaunchRules = <<FooErrHeapOff>>
    /\ LastEnv["WINEDEBUG"] = FooErrHeapOffText

\* the texts of the rules of a list, in order
RuleTexts(rs) == [i \in 1..Len(rs) |-> RuleText(rs[i])]

\* C2 as stated: for every non-empty rule list, the WINEDEBUG value is the
\* rule texts joined by ',' in input order, holds exactly count-1 commas and
\* its i-th comma-delimited field is the text of the i-th rule.
C2_CommaFields ==
    (Launch /\ LaunchRules # <<>>) =>
        /\ LastEnv["WINEDEBUG"] = Joined(RuleTexts(LaunchRules), ",")
        /\ Count(LastEnv["WINEDEBUG"], ",") = Len(LaunchRules) - 1
        /\ Fields(LastEnv["WINEDEBUG"], ",") = RuleTexts(LaunchRules)

\* no process name and no Other channel name of the list holds a comma
CommaFree(rs) ==
    \A i \in 1..Len(rs) :
        /\ rs[i].process # <<>> => Count(rs[i].process[1], ",") = 0
        /\ Count(rs[i].channel.text, ",") = 0

\* C2 amended: for every non-empty rule list, the WINEDEBUG value is the
\* rule texts joined by ',' in input order; when no process name and no
\* Other channel name holds a comma, it holds exactly count-1 commas and its
\* i-th comma-delimited field is the text of the i-th rule.
C2_CommaFieldsAmended ==
    (Launch /\ LaunchRules # <<>>) =>
        /\ LastEnv["WINEDEBUG"] = Joined(RuleTexts(LaunchRules), ",")
        /\ CommaFree(LaunchRules) =>
              /\ Count(LastEnv["WINEDEBUG"], ",") = Len(LaunchRules) - 1
              /\ Fields(LastEnv["WINEDEBUG"], ",") = RuleTexts(LaunchRules)

C2_Witness ==
    /\ Launch
    /\ Len(LaunchRules) >= 2
    /\ CommaFree(LaunchRules)
    /\ LaunchRules[1] # LaunchRules[2]
    /\ Count(LastEnv["WINEDEBUG"], ",") = Len(LaunchRules) - 1

\* C3: a command sets WINEDEBUG exactly when its rule list is non-empty,
\* and never to the empty text, for every PrefixConfig and use_start_exe.
C3_DebugPresence ==
    Launch =>
        /\ IsSet("WINEDEBUG") <=> LaunchRules # <<>>
        /\ IsSet("WINEDEBUG") => LastEnv["WINEDEBUG"] # <<>>

C3_Witness ==
    /\ Launch
    /\ LaunchRules = <<>>
    /\ ~IsSet("WINEDEBUG")
    /\ at_args[1].config.esync

\* C4: a command sets ESYNC exactly when config.esync is true and MSYNC
\* exactly when config.msync is true, each to "1" and never to "0".
C4_SyncFlags ==
    Launch =>
        /\ IsSet("ESYNC") <=> at_args[1].config.esync
        /\ IsSet("MSYNC") <=> at_args[1].config.msync
        /\ IsSet("ESYNC") => LastEnv["ESYNC"] = <<"1">>
        /\ IsSet("MSYNC") => LastEnv["MSYNC"] = <<"1">>

C4_Witness ==
    /\ Launch
    /\ at_args[1].config.esync
    /\ ~at_args[1].config.msync
    /\ IsSet("ESYNC")
    /\ ~IsSet("MSYNC")

\* C5: the argument list of a command is ["start", program] when
\* use_start_exe is true and [program] when it is false, whatever the
\* number of rules and the PrefixConfig.
C5_Arguments ==
    Launch =>
        last_command[1].args =
            IF command_args[1].use_start_exe
            THEN << <<"s", "t", "a", "r", "t">>, command_args[1].program >>
            ELSE << command_args[1].program >>

C5_Witness ==
    /\ Launch
    /\ command_args[1].use_start_exe
    /\ LaunchRules # <<>>
    /\ Len(last_command[1].args) = 2

\* C6: every command sets WINEPREFIX to the root given to Prefix::at and
\* DYLD_FALLBACK_LIBRARY_PATH to the library directories joined by ':' in
\* input order: no directory gives the empty text, ["/a", "/b"] gives
\* "/a:/b".
C6_BaseEnvironment ==
    Launch =>
        /\ IsSet("WINEPREFIX")
        /\ LastEnv["WINEPREFIX"] = at_args[1].path
        /\ IsSet("DYLD_FALLBACK_LIBRARY_PATH")
        /\ LastEnv["DYLD_FALLBACK_LIBRARY_PATH"]
              = Joined(at_args[1].dynamic_library_paths, ":")
        /\ at_args[1].dynamic_library_paths = <<>>
              => LastEnv["DYLD_FALLBACK_LIBRARY_PATH"] = <<>>
        /\ at_args[1].dynamic_library_paths = << <<"/", "a">>, <<"/", "b">> >>
              => LastEnv["DYLD_FALLBACK_LIBRARY_PATH"] = <<"/", "a", ":", "/", "b">>

C6_Witness ==
    /\ Launch
    /\ at_args[1].dynamic_library_paths = << <<"/", "a">>, <<"/", "b">> >>
    /\ LastEnv["DYLD_FALLBACK_LIBRARY_PATH"] = <<"/", "a", ":", "/", "b">>

\* <root>/<rel> is a regular file, a relative root being taken from the
\* working directory
HasFile(root, rel) ==
    LET file == (Append(root, "/")) \o rel
    IN (IF Head(file) = "/" THEN file ELSE (Append(Cwd, "/")) \o file) \in RegularFiles

\* C7: Prefix::at returns a Prefix exactly when <root>/bin/wine is a regular
\* file, whether or not bin/wineserver and bin/regedit exist; otherwise it
\* panics, no Prefix exists and no command or kill_all is ever issued.
C7_Construction ==
    /\ at_args = <<>> => (pc = "start" /\ prefix = <<>>)
    /\ at_args # <<>> =>
          /\ prefix # <<>> <=> HasFile(at_args[1].path, <<"b", "i", "n", "/", "w", "i", "n", "e">>)
          /\ pc = (IF prefix # <<>> THEN "ready" ELSE "panicked")
    /\ prefix = <<>> => (command_args = <<>> /\ last_command = <<>> /\ output = <<>>)

C7_Witness ==
    /\ pc = "panicked"
    /\ prefix = <<>>
    /\ HasFile(at_args[1].path, S_bin_wineserver)
    /\ HasFile(at_args[1].path, S_bin_regedit)

\* C8: kill_all runs <root>/bin/wineserver in the prefix root with
\* WINEPREFIX set to the root as the only variable and "-k" as the only
\* argument, whatever the PrefixConfig and the DebugRules.
C8_KillAll ==
    Kill =>
        /\ last_command[1].program
              = (Append(at_args[1].path, "/"))
                    \o <<"b", "i", "n", "/", "w", "i", "n", "e", "s", "e", "r", "v", "e", "r">>
        /\ last_command[1].current_dir = <<at_args[1].path>>
        /\ DOMAIN LastEnv = {"WINEPREFIX"}
        /\ LastEnv["WINEPREFIX"] = at_args[1].path
        /\ last_command[1].args = << <<"-", "k">> >>

C8_Witness ==
    /\ Kill
    /\ at_args[1].config.esync
    /\ at_args[1].config.msync
    /\ rules # <<>>
    /\ last_command[1].args = << <<"-", "k">> >>

\* an absolute path
Absolute(path) == path # <<>> /\ Head(path) = "/"

\* C9: for every root Prefix::at accepts, a relative one included, the three
\* executable paths of the Prefix are absolute and the WINEPREFIX of every
\* command is the absolute prefix root.
C9_AbsolutePaths ==
    /\ prefix # <<>> =>
          /\ Absolute(prefix[1].wine)
          /\ Absolute(prefix[1].wineserver)
          /\ Absolute(prefix[1].regedit)
    /\ Launch => Absolute(LastEnv["WINEPREFIX"])

\* the rule a builder call stands for
CallRule(call) ==
    IF call.op = "add" THEN call.rule[1]
    ELSE [process |-> <<>>, class |-> <<>>, channel |-> call.channel[1],
          is_enabled |-> (call.op = "enable")]

\* C10: after any sequence of add, enable and disable calls on an empty
\* DebugRules, the rules are one per call in call order, add(r) giving r,
\* enable(c) (None, None, c, true) and disable(c) (None, None, c, false),
\* with no merging of repeated channels; the WINEDEBUG fields of a command
\* follow the call order.
C10_CallOrder ==
    /\ Len(rules) = Len(calls)
    /\ \A i \in 1..Len(calls) : rules[i] = CallRule(calls[i])
    /\ (Launch /\ LaunchRules # <<>>) =>
          LastEnv["WINEDEBUG"]
             = Joined([i \in 1..Len(LaunchRules) |-> RuleText(CallRule(calls[i]))], ",")

C10_Witness ==
    /\ Launch
    /\ Len(LaunchRules) = 2
    /\ calls[1].op = "enable"
    /\ calls[2] = calls[1]
    /\ rules[1] = rules[2]

====
